---- MODULE Spec2Model ----
(***************************************************************************)
(* Word count by Map / Shuffle / Reduce / Combine on threads.              *)
(*   wordcount_mr.py : multi_threaded_wordcount, slot-per-task variant     *)
(*   wordcount_mt.py : multithreaded_count, lock-protected list variant    *)
(* A line is a sequence of one-character strings, a word is a sequence of  *)
(* characters, a count map is a function from words to positive integers.  *)
(* A slot of a Python list that holds None is <<>>, a slot that holds a    *)
(* count map c is <<c>>.                                                   *)
(***************************************************************************)
EXTENDS Integers, Sequences, FiniteSets, TLC

VARIABLES
    lines,          \* the input line sequence
    num_threads,    \* the thread count passed by the caller
    pc,             \* position of the calling thread
    err,            \* exception that left the call ("" when none)
    partitions,     \* wordcount_mr: chunks, indexed 0..n-1
    intermediate,   \* wordcount_mr: one slot per Map task
    mapState,       \* wordcount_mr: state of each Map thread
    sorted_keys,    \* wordcount_mr: sorted unique words
    key_groups,     \* wordcount_mr: key groups, indexed 0..n-1
    reduced,        \* wordcount_mr: one slot per Reduce task
    redState,       \* wordcount_mr: state of each Reduce thread
    final_counts,   \* wordcount_mr: dict filled by the Combiner thread
    combState,      \* state of the Combiner thread (both variants)
    mt_text,        \* wordcount_mt: MapThread.text of each constructed thread
    mt_mapState,    \* wordcount_mt: state of each MapThread
    map_lock,       \* wordcount_mt: holder of map_lock (-1 when free)
    partial_maps,   \* wordcount_mt: list the MapThreads append to
    mt_keys,        \* wordcount_mt: set of unique words
    mt_redState,    \* wordcount_mt: state of each ReduceThread, by key
    reduce_lock,    \* wordcount_mt: holder of reduce_lock (<<>> when free)
    mt_reduced,     \* wordcount_mt: dict `reduced`, as (key, total) pairs in insertion order
    combined_list,  \* wordcount_mt: list the CombinerThread extends
    mt_result,      \* wordcount_mt: dict(combined_list), pairs in insertion order
    calls,          \* two calls of multi_threaded_wordcount: the locals of each call
    slotLists,      \* two calls: the list objects ([None] * num_threads) allocated so far
    dicts,          \* two calls: the dict objects (final_counts = {}) allocated so far
    api_pc,         \* app.py: position of wordcount_api
    api_file,       \* app.py: request.files['file'] as its lines (<<>> when absent, else <<lines>>)
    api_form,       \* app.py: request.form['threads'] (<<>> when absent, else <<text>>)
    api_status,     \* app.py: status of the response (0 before it is sent)
    api_body,       \* app.py: body of an error response
    single_counts,  \* app.py: result of the call of line 23 (<<>> before it)
    writeable,      \* script.py: global writeable
    bufferCell,     \* script.py: global bufferCell
    lock,           \* script.py: holder of the global lock (0 when free)
    prodPc,         \* script.py: position of each Producer thread
    prodItem,       \* script.py: local i of each Producer thread
    consPc,         \* script.py: position of each Consumer thread
    alive,          \* script.py: x.is_alive()
    nStored,        \* script.py: number of items stored in bufferCell so far
    nReceived       \* script.py: number of items received from bufferCell so far

inVars == <<lines, num_threads>>
mrVars == <<partitions, intermediate, mapState, sorted_keys, key_groups,
            reduced, redState, final_counts>>
mtVars == <<mt_text, mt_mapState, map_lock, partial_maps, mt_keys, mt_redState,
            reduce_lock, mt_reduced, combined_list, mt_result>>
twoVars == <<calls, slotLists, dicts>>
apiVars == <<api_pc, api_file, api_form, api_status, api_body, single_counts>>
pcVars == <<writeable, bufferCell, lock, prodPc, prodItem, consPc, alive, nStored, nReceived>>
\* the variables of the programs other than the two word counts
extVars == <<twoVars, apiVars, pcVars>>
\* the variables of the two word counts
wcVars == <<inVars, pc, err, mrVars, combState, mtVars>>
vars == <<lines, num_threads, pc, err, partitions, intermediate, mapState,
          sorted_keys, key_groups, reduced, redState, final_counts, combState,
          mt_text, mt_mapState, map_lock, partial_maps, mt_keys, mt_redState,
          reduce_lock, mt_reduced, combined_list, mt_result,
          calls, slotLists, dicts,
          api_pc, api_file, api_form, api_status, api_body, single_counts,
          writeable, bufferCell, lock, prodPc, prodItem, consPc, alive, nStored, nReceived>>

(***************************************************************************)
(* Bounds of the model and the inputs it draws.                            *)
(***************************************************************************)
MaxLines == 3
MaxThreads == 3
NegThreads == 2

\* Input lines: empty, one word, mixed case with a blank, a digit inside a
\* word, a two-letter word.
LineSet ==
    { <<>>,
      <<"a">>,
      <<"B", " ", "a">>,
      <<"a", "1", "b">>,
      <<"a", "B">> }

RECURSIVE SeqsUpTo(_, _)
SeqsUpTo(S, n) ==
    IF n = 0 THEN { <<>> }
    ELSE LET shorter == SeqsUpTo(S, n - 1)
         IN  shorter \cup { Append(s, x) : s \in { t \in shorter : Len(t) = n - 1 }, x \in S }

Inputs == SeqsUpTo(LineSet, MaxLines)
\* thread counts tried: below 1 (no validation in the code) and from 1 up
ThreadCounts == (0 - NegThreads) .. MaxThreads

None == <<>>
Some(c) == <<c>>
EmptyCounts == [w \in {} |-> 0]
\* range(n) of Python: empty when n <= 0
PyRange(n) == 0 .. (n - 1)

(***************************************************************************)
(* Python primitives used by both variants.                                *)
(***************************************************************************)
\* a // b for b # 0 (floor division)
PyFloorDiv(a, b) ==
    IF b > 0 THEN a \div b
    ELSE (0 - a) \div (0 - b)

PyMin(a, b) == IF a <= b THEN a ELSE b

\* seq[lo:hi] for 0 <= lo, 0 <= hi: the bounds are clamped to len(seq)
PySlice(seq, lo, hi) == SubSeq(seq, PyMin(lo, Len(seq)) + 1, PyMin(hi, Len(seq)))

\* str.lower(), one character
LowerChar(c) ==
    CASE c = "A" -> "a"
      [] c = "B" -> "b"
      [] OTHER -> c

\* str.lower()
Lower(text) == [i \in DOMAIN text |-> LowerChar(text[i])]

\* the character class [A-Za-z]
AlphaClass == {"a", "b", "A", "B"}
\* the character class \w
WordClass == {"a", "b", "A", "B", "1", "_"}

\* re.findall(cls+, text): the maximal runs of characters of cls, left to right
RECURSIVE Scan(_, _, _, _, _)
Scan(cls, text, i, cur, out) ==
    IF i > Len(text)
    THEN IF cur = <<>> THEN out ELSE Append(out, cur)
    ELSE IF text[i] \in cls
         THEN Scan(cls, text, i + 1, Append(cur, text[i]), out)
         ELSE Scan(cls, text, i + 1, <<>>, IF cur = <<>> THEN out ELSE Append(out, cur))

FindAll(cls, text) == Scan(cls, text, 1, <<>>, <<>>)

\* counts[key] = v, the increment lost
AddCountAssign(counts, key, v) ==
    [w \in DOMAIN counts \cup {key} |-> IF w = key THEN v ELSE counts[w]]

\* counts[key] += v on a defaultdict(int)
AddCount(counts, key, v) ==
    IF key \in DOMAIN counts
    THEN [counts EXCEPT ![key] = @ + v]
    ELSE [w \in DOMAIN counts \cup {key} |-> IF w = key THEN v ELSE counts[w]]

\* for word in tokens: counts[word] += 1
RECURSIVE CountTokens(_, _, _)
CountTokens(counts, tokens, i) ==
    IF i > Len(tokens) THEN counts
    ELSE CountTokens(AddCount(counts, tokens[i], 1), tokens, i + 1)

\* for line in lines: for word in re.findall(r"[A-Za-z]+", line.lower()): counts[word] += 1
RECURSIVE CountLines(_, _, _)
CountLines(counts, ls, i) ==
    IF i > Len(ls) THEN counts
    ELSE CountLines(CountTokens(counts, FindAll(AlphaClass, Lower(ls[i])), 1), ls, i + 1)

\* code point order of the characters that occur
Ord(c) ==
    CASE c = "\n" -> 10
      [] c = " " -> 32
      [] c = "1" -> 49
      [] c = "A" -> 65
      [] c = "B" -> 66
      [] c = "_" -> 95
      [] c = "a" -> 97
      [] c = "b" -> 98

\* u < v on Python strings
RECURSIVE StrLess(_, _)
StrLess(u, v) ==
    IF u = <<>> THEN v # <<>>
    ELSE IF v = <<>> THEN FALSE
    ELSE IF Ord(Head(u)) # Ord(Head(v)) THEN Ord(Head(u)) < Ord(Head(v))
    ELSE StrLess(Tail(u), Tail(v))

\* sorted(S) for a set of words
RECURSIVE Sorted(_)
Sorted(S) ==
    IF S = {} THEN <<>>
    ELSE LET m == CHOOSE x \in S : \A y \in S : x = y \/ StrLess(x, y)
         IN  <<m>> \o Sorted(S \ {m})

SumValues(counts) ==
    LET RECURSIVE Sum(_)
        Sum(D) == IF D = {} THEN 0
                  ELSE LET w == CHOOSE x \in D : TRUE IN counts[w] + Sum(D \ {w})
    IN  Sum(DOMAIN counts)

(***************************************************************************)
(* wordcount_mr.py                                                         *)
(***************************************************************************)
\* single_threaded_wordcount(lines)[0]
single_threaded_wordcount(ls) == CountLines(EmptyCounts, ls, 1)

\* map_task: the counts it stores in intermediate[index]
map_task(part_lines) == CountLines(EmptyCounts, part_lines, 1)

\* every slice ends at (i+1)*size: the remainder is not taken by the last one
PartitionNoRemainder(seq, n) ==
    LET size == PyFloorDiv(Len(seq), n)
    IN  [i \in PyRange(n) |-> PySlice(seq, i * size, (i + 1) * size)]

\* slices of size ceil(len(seq) / n), as wordcount_mt.py cuts them
PartitionCeil(seq, n) ==
    LET size == PyFloorDiv(Len(seq) + n - 1, n)
    IN  [i \in PyRange(n) |-> PySlice(seq, i * size, (i + 1) * size)]

\* every slice but the last runs one element into the next one
PartitionOverlap(seq, n) ==
    LET total == Len(seq)
        size == PyFloorDiv(total, n)
    IN  [i \in PyRange(n) |->
            PySlice(seq, i * size, IF i < n - 1 THEN (i + 1) * size + 1 ELSE total)]

\* the list comprehension that cuts seq into n slices of size len(seq) // n,
\* the last one running to the end (lines 66-71 and 90-94)
Partition(seq, n) ==
    LET total == Len(seq)
        size == PyFloorDiv(total, n)
    IN  [i \in PyRange(n) |->
            PySlice(seq, i * size, IF i < n - 1 THEN (i + 1) * size ELSE total)]

\* counts[key] = part_counts[key]: the last Map output that has the key wins
RECURSIVE ReduceKeysAssign(_, _, _, _)
ReduceKeysAssign(counts, keys, part_counts, k) ==
    IF k > Len(keys) THEN counts
    ELSE ReduceKeysAssign(IF keys[k] \in DOMAIN part_counts
                          THEN AddCountAssign(counts, keys[k], part_counts[keys[k]])
                          ELSE counts,
                          keys, part_counts, k + 1)

\* reduce_task: for part_counts in intermediate: for key in keys: ...
RECURSIVE ReduceKeys(_, _, _, _)
ReduceKeys(counts, keys, part_counts, k) ==
    IF k > Len(keys) THEN counts
    ELSE ReduceKeys(IF keys[k] \in DOMAIN part_counts
                    THEN AddCount(counts, keys[k], part_counts[keys[k]])
                    ELSE counts,
                    keys, part_counts, k + 1)

RECURSIVE ReduceParts(_, _, _, _)
ReduceParts(counts, keys, inter, i) ==
    IF i \notin DOMAIN inter THEN counts
    ELSE ReduceParts(ReduceKeys(counts, keys, inter[i][1], 1), keys, inter, i + 1)

\* sums over the first Map output only
reduce_task_first(keys, inter) ==
    IF 0 \in DOMAIN inter THEN ReduceKeys(EmptyCounts, keys, inter[0][1], 1) ELSE EmptyCounts

reduce_task(keys, inter) == ReduceParts(EmptyCounts, keys, inter, 0)

\* final_counts[word] = final_counts.get(word, 0) + cnt, for every item of part_counts
MergeCounts(final, part_counts) ==
    [w \in DOMAIN final \cup DOMAIN part_counts |->
        (IF w \in DOMAIN final THEN final[w] ELSE 0)
        + (IF w \in DOMAIN part_counts THEN part_counts[w] ELSE 0)]

\* combiner_task: merges the slots of reduced in index order; a slot that is
\* None raises AttributeError (part_counts.items()) and ends the thread with
\* final_counts as merged so far.
RECURSIVE CombineFrom(_, _, _)
CombineFrom(final, red, i) ==
    IF i \notin DOMAIN red THEN [counts |-> final, raised |-> FALSE]
    ELSE IF red[i] = None THEN [counts |-> final, raised |-> TRUE]
    ELSE CombineFrom(MergeCounts(final, red[i][1]), red, i + 1)

combiner_task(red) == CombineFrom(EmptyCounts, red, 0)

\* unique_words.update(d.keys()) for d in intermediate
UniqueWords(inter) == UNION { DOMAIN inter[i][1] : i \in DOMAIN inter }

\* the lowest index whose thread the loop has not started yet
NextToStart(state) == CHOOSE i \in DOMAIN state : state[i] = "idle" /\ \A j \in DOMAIN state : j < i => state[j] # "idle"
Terminated(state) == \A i \in DOMAIN state : state[i] \in {"done", "raised"}

\* no second program is running
TwoIdle == calls = <<>> /\ slotLists = <<>> /\ dicts = <<>>
ApiIdle ==
    /\ api_pc = "idle"
    /\ api_file = <<>>
    /\ api_form = <<>>
    /\ api_status = 0
    /\ api_body = ""
    /\ single_counts = <<>>
\* script.py as loaded (lines 8-11), no Producer or Consumer thread created
PCIdle ==
    /\ writeable = TRUE
    /\ bufferCell = 0
    /\ lock = 0
    /\ prodPc = <<>>
    /\ prodItem = <<>>
    /\ consPc = <<>>
    /\ alive = TRUE
    /\ nStored = 0
    /\ nReceived = 0
ExtIdle == TwoIdle /\ ApiIdle /\ PCIdle

Init ==
    /\ lines \in Inputs
    /\ num_threads \in ThreadCounts
    /\ pc = "start"
    /\ err = ""
    /\ partitions = <<>>
    /\ intermediate = <<>>
    /\ mapState = <<>>
    /\ sorted_keys = <<>>
    /\ key_groups = <<>>
    /\ reduced = <<>>
    /\ redState = <<>>
    /\ final_counts = EmptyCounts
    /\ combState = "idle"
    /\ mt_text = <<>>
    /\ mt_mapState = <<>>
    /\ map_lock = -1
    /\ partial_maps = <<>>
    /\ mt_keys = {}
    /\ mt_redState = <<>>
    /\ reduce_lock = <<>>
    /\ mt_reduced = <<>>
    /\ combined_list = <<>>
    /\ mt_result = <<>>
    /\ ExtIdle

\* lines 66-75: total // num_threads raises ZeroDivisionError for 0; otherwise
\* the chunks and the slot list are built.
PartitionLines ==
    /\ pc = "start"
    /\ IF num_threads = 0
       THEN /\ pc' = "error"
            /\ err' = "ZeroDivisionError"
            /\ UNCHANGED <<partitions, intermediate, mapState>>
       ELSE /\ partitions' = Partition(lines, num_threads)
            /\ intermediate' = [i \in PyRange(num_threads) |-> None]
            /\ mapState' = [i \in PyRange(num_threads) |-> "idle"]
            /\ pc' = IF num_threads >= 1 THEN "map_start" ELSE "map_join"
            /\ err' = err
    /\ UNCHANGED <<extVars, inVars, sorted_keys, key_groups, reduced, redState, final_counts,
                   combState, mtVars>>

\* lines 76-79: one pass of the loop that starts the Map threads
StartMap ==
    /\ pc = "map_start"
    /\ LET i == NextToStart(mapState)
       IN  /\ mapState' = [mapState EXCEPT ![i] = "running"]
           /\ pc' = IF i = num_threads - 1 THEN "map_join" ELSE "map_start"
    /\ UNCHANGED <<extVars, inVars, err, partitions, intermediate, sorted_keys, key_groups,
                   reduced, redState, final_counts, combState, mtVars>>

\* a Map thread that returns early on an empty chunk and leaves its slot None
MapRunSkipEmpty(i) ==
    /\ i \in DOMAIN mapState
    /\ mapState[i] = "running"
    /\ intermediate' = IF partitions[i] = <<>> THEN intermediate
                       ELSE [intermediate EXCEPT ![i] = Some(map_task(partitions[i]))]
    /\ mapState' = [mapState EXCEPT ![i] = "done"]
    /\ UNCHANGED <<extVars, inVars, pc, err, partitions, sorted_keys, key_groups, reduced,
                   redState, final_counts, combState, mtVars>>

\* a Map thread that stores its counts in the slot after its own
MapRunWrongSlot(i) ==
    /\ i \in DOMAIN mapState
    /\ mapState[i] = "running"
    /\ intermediate' = [intermediate EXCEPT ![(i + 1) % num_threads] = Some(map_task(partitions[i]))]
    /\ mapState' = [mapState EXCEPT ![i] = "done"]
    /\ UNCHANGED <<extVars, inVars, pc, err, partitions, sorted_keys, key_groups, reduced,
                   redState, final_counts, combState, mtVars>>

\* a Map thread that stores its counts and then never ends
MapRunHang(i) ==
    /\ i \in DOMAIN mapState
    /\ mapState[i] = "running"
    /\ intermediate' = [intermediate EXCEPT ![i] = Some(map_task(partitions[i]))]
    /\ mapState' = mapState
    /\ UNCHANGED <<extVars, inVars, pc, err, partitions, sorted_keys, key_groups, reduced,
                   redState, final_counts, combState, mtVars>>

\* lines 38-44: Map thread i counts its chunk and stores the counts in its slot
MapRun(i) ==
    /\ i \in DOMAIN mapState
    /\ mapState[i] = "running"
    /\ intermediate' = [intermediate EXCEPT ![i] = Some(map_task(partitions[i]))]
    /\ mapState' = [mapState EXCEPT ![i] = "done"]
    /\ UNCHANGED <<extVars, inVars, pc, err, partitions, sorted_keys, key_groups, reduced,
                   redState, final_counts, combState, mtVars>>

\* Map thread i ends with an exception before line 44: threading prints it and
\* the thread terminates; its slot keeps None.
MapRaise(i) ==
    /\ i \in DOMAIN mapState
    /\ mapState[i] = "running"
    /\ mapState' = [mapState EXCEPT ![i] = "raised"]
    /\ UNCHANGED <<extVars, inVars, pc, err, partitions, intermediate, sorted_keys, key_groups,
                   reduced, redState, final_counts, combState, mtVars>>

\* lines 80-81: every join has returned
JoinMap ==
    /\ pc = "map_join"
    /\ Terminated(mapState)
    /\ pc' = "shuffle"
    /\ UNCHANGED <<extVars, inVars, err, mrVars, combState, mtVars>>

\* a shuffle that skips the slots that are None and goes on
ShuffleSkipNone ==
    /\ pc = "shuffle"
    /\ sorted_keys' = Sorted(UNION { DOMAIN intermediate[i][1] :
                                     i \in { j \in DOMAIN intermediate : intermediate[j] # None } })
    /\ key_groups' = Partition(sorted_keys', num_threads)
    /\ reduced' = [i \in PyRange(num_threads) |-> None]
    /\ redState' = [i \in PyRange(num_threads) |-> "idle"]
    /\ pc' = IF num_threads >= 1 THEN "reduce_start" ELSE "reduce_join"
    /\ UNCHANGED <<extVars, inVars, err, partitions, intermediate, mapState, final_counts,
                   combState, mtVars>>

\* a shuffle that fails when the Map outputs hold no word at all
ShuffleEmptyKeysError ==
    /\ pc = "shuffle"
    /\ IF \/ \E i \in DOMAIN intermediate : intermediate[i] = None
          \/ UniqueWords(intermediate) = {}
       THEN /\ pc' = "error"
            /\ err' = "AttributeError"
            /\ UNCHANGED <<sorted_keys, key_groups, reduced, redState>>
       ELSE /\ sorted_keys' = Sorted(UniqueWords(intermediate))
            /\ key_groups' = Partition(sorted_keys', num_threads)
            /\ reduced' = [i \in PyRange(num_threads) |-> None]
            /\ redState' = [i \in PyRange(num_threads) |-> "idle"]
            /\ pc' = IF num_threads >= 1 THEN "reduce_start" ELSE "reduce_join"
            /\ err' = err
    /\ UNCHANGED <<extVars, inVars, partitions, intermediate, mapState, final_counts,
                   combState, mtVars>>

\* lines 84-97: d.keys() raises AttributeError on a slot that is None;
\* otherwise the sorted keys are cut into groups and the Reduce slots built.
Shuffle ==
    /\ pc = "shuffle"
    /\ IF \E i \in DOMAIN intermediate : intermediate[i] = None
       THEN /\ pc' = "error"
            /\ err' = "AttributeError"
            /\ UNCHANGED <<sorted_keys, key_groups, reduced, redState>>
       ELSE /\ sorted_keys' = Sorted(UniqueWords(intermediate))
            /\ key_groups' = Partition(sorted_keys', num_threads)
            /\ reduced' = [i \in PyRange(num_threads) |-> None]
            /\ redState' = [i \in PyRange(num_threads) |-> "idle"]
            /\ pc' = IF num_threads >= 1 THEN "reduce_start" ELSE "reduce_join"
            /\ err' = err
    /\ UNCHANGED <<extVars, inVars, partitions, intermediate, mapState, final_counts,
                   combState, mtVars>>

\* lines 99-102: one pass of the loop that starts the Reduce threads
StartReduce ==
    /\ pc = "reduce_start"
    /\ LET i == NextToStart(redState)
       IN  /\ redState' = [redState EXCEPT ![i] = "running"]
           /\ pc' = IF i = num_threads - 1 THEN "reduce_join" ELSE "reduce_start"
    /\ UNCHANGED <<extVars, inVars, err, partitions, intermediate, mapState, sorted_keys,
                   key_groups, reduced, final_counts, combState, mtVars>>

\* lines 46-53: Reduce thread i sums its keys over all Map outputs
ReduceRun(i) ==
    /\ i \in DOMAIN redState
    /\ redState[i] = "running"
    /\ reduced' = [reduced EXCEPT ![i] = Some(reduce_task(key_groups[i], intermediate))]
    /\ redState' = [redState EXCEPT ![i] = "done"]
    /\ UNCHANGED <<extVars, inVars, pc, err, partitions, intermediate, mapState, sorted_keys,
                   key_groups, final_counts, combState, mtVars>>

\* Reduce thread i ends with an exception before line 53; its slot keeps None.
ReduceRaise(i) ==
    /\ i \in DOMAIN redState
    /\ redState[i] = "running"
    /\ redState' = [redState EXCEPT ![i] = "raised"]
    /\ UNCHANGED <<extVars, inVars, pc, err, partitions, intermediate, mapState, sorted_keys,
                   key_groups, reduced, final_counts, combState, mtVars>>

\* the Combiner is launched without waiting for the Reduce threads
JoinReduceNoWait ==
    /\ pc = "reduce_join"
    /\ pc' = "combine"
    /\ UNCHANGED <<extVars, inVars, err, mrVars, combState, mtVars>>

\* lines 103-104
JoinReduce ==
    /\ pc = "reduce_join"
    /\ Terminated(redState)
    /\ pc' = "combine"
    /\ UNCHANGED <<extVars, inVars, err, mrVars, combState, mtVars>>

\* lines 107-109
StartCombiner ==
    /\ pc = "combine"
    /\ combState' = "running"
    /\ pc' = "combine_join"
    /\ UNCHANGED <<extVars, inVars, err, mrVars, mtVars>>

\* lines 55-59, on the Combiner thread
CombinerRun ==
    /\ pc = "combine_join"
    /\ combState = "running"
    /\ LET r == combiner_task(reduced)
       IN  /\ final_counts' = r.counts
           /\ combState' = IF r.raised THEN "raised" ELSE "done"
    /\ UNCHANGED <<extVars, inVars, pc, err, partitions, intermediate, mapState, sorted_keys,
                   key_groups, reduced, redState, mtVars>>

\* lines 110-113: the join returns once the Combiner thread has terminated,
\* however it ended, and the call returns final_counts.
JoinCombiner ==
    /\ pc = "combine_join"
    /\ combState \in {"done", "raised"}
    /\ pc' = "returned"
    /\ UNCHANGED <<extVars, inVars, err, mrVars, combState, mtVars>>

Next ==
    \/ PartitionLines
    \/ StartMap
    \/ \E i \in PyRange(MaxThreads) : MapRun(i)
    \/ JoinMap
    \/ Shuffle
    \/ StartReduce
    \/ \E i \in PyRange(MaxThreads) : ReduceRun(i)
    \/ JoinReduce
    \/ StartCombiner
    \/ CombinerRun
    \/ JoinCombiner

Spec == Init /\ [][Next]_vars

\* fair scheduling: as long as the calling thread or a started thread can take
\* a step, some step is taken
SpecLive == Init /\ [][Next]_vars /\ WF_vars(Next)

\* the same program with threads that may end with an exception
NextFault ==
    \/ Next
    \/ \E i \in PyRange(MaxThreads) : MapRaise(i)
    \/ \E i \in PyRange(MaxThreads) : ReduceRaise(i)

SpecFault == Init /\ [][NextFault]_vars

(***************************************************************************)
(* wordcount_mt.py                                                         *)
(***************************************************************************)
\* "\n".join(chunk_lines)
RECURSIVE Join(_)
Join(ls) ==
    IF ls = <<>> THEN <<>>
    ELSE IF Len(ls) = 1 THEN ls[1]
    ELSE ls[1] \o <<"\n">> \o Join(Tail(ls))

\* Counter(re.findall(r"\w+", text))
CounterOfText(text) == CountTokens(EmptyCounts, FindAll(WordClass, text), 1)

\* single_thread_count(lines)
single_thread_count(ls) == CounterOfText(Lower(Join(ls)))

\* chunk_size = len(lines) // num_threads, rounded down
ChunkSizeFloor(ls, n) == PyFloorDiv(Len(ls), n)

\* chunk_size = (len(lines) + num_threads - 1) // num_threads
ChunkSize(ls, n) == PyFloorDiv(Len(ls) + n - 1, n)

\* MapThread.__init__ on lines[i*chunk_size : (i+1)*chunk_size]
MapThreadText(ls, n, i) ==
    Lower(Join(PySlice(ls, i * ChunkSize(ls, n), (i + 1) * ChunkSize(ls, n))))

\* set().union(*all_counters) if all_counters else set()
UnionKeys(counters) == UNION { DOMAIN counters[j] : j \in DOMAIN counters }

\* sum(d.get(key, 0) for d in partials)
RECURSIVE SumKey(_, _, _)
SumKey(key, partials, j) ==
    IF j > Len(partials) THEN 0
    ELSE (IF key \in DOMAIN partials[j] THEN partials[j][key] ELSE 0)
         + SumKey(key, partials, j + 1)

\* sorted(pairs, key=lambda kv: kv[1], reverse=True): stable, so pairs of equal
\* count keep the order they have in pairs
InsertDesc(res, p) ==
    LET k == Cardinality({ j \in DOMAIN res : res[j][2] >= p[2] })
    IN  SubSeq(res, 1, k) \o <<p>> \o SubSeq(res, k + 1, Len(res))

RECURSIVE SortDescFrom(_, _, _)
SortDescFrom(res, pairs, j) ==
    IF j > Len(pairs) THEN res
    ELSE SortDescFrom(InsertDesc(res, pairs[j]), pairs, j + 1)

SortedPairs(pairs) == SortDescFrom(<<>>, pairs, 1)

\* dict(pairs): a key keeps the position of its first pair and the value of its last
RECURSIVE DictFrom(_, _, _)
DictFrom(d, pairs, j) ==
    IF j > Len(pairs) THEN d
    ELSE LET p == pairs[j]
             at == { m \in DOMAIN d : d[m][1] = p[1] }
         IN  DictFrom(IF at = {} THEN Append(d, p)
                      ELSE [m \in DOMAIN d |-> IF m \in at THEN p ELSE d[m]],
                      pairs, j + 1)

DictOfPairs(pairs) == DictFrom(<<>>, pairs, 1)

\* a dict given as pairs, as a mapping (what == compares)
AsMapping(pairs) ==
    [w \in { pairs[j][1] : j \in DOMAIN pairs } |->
        pairs[CHOOSE j \in DOMAIN pairs : pairs[j][1] = w][2]]

InitMT ==
    /\ lines \in Inputs
    /\ num_threads \in ThreadCounts
    /\ pc = "mt_start"
    /\ err = ""
    /\ partitions = <<>>
    /\ intermediate = <<>>
    /\ mapState = <<>>
    /\ sorted_keys = <<>>
    /\ key_groups = <<>>
    /\ reduced = <<>>
    /\ redState = <<>>
    /\ final_counts = EmptyCounts
    /\ combState = "idle"
    /\ mt_text = <<>>
    /\ mt_mapState = <<>>
    /\ map_lock = -1
    /\ partial_maps = <<>>
    /\ mt_keys = {}
    /\ mt_redState = <<>>
    /\ reduce_lock = <<>>
    /\ mt_reduced = <<>>
    /\ combined_list = <<>>
    /\ mt_result = <<>>
    /\ ExtIdle

\* lines 84-87: the division raises ZeroDivisionError for num_threads = 0
MTBegin ==
    /\ pc = "mt_start"
    /\ IF num_threads = 0
       THEN /\ pc' = "error"
            /\ err' = "ZeroDivisionError"
            /\ UNCHANGED <<mt_text, mt_mapState>>
       ELSE /\ mt_mapState' = [i \in PyRange(num_threads) |-> "idle"]
            /\ mt_text' = [i \in PyRange(num_threads) |-> <<>>]
            /\ pc' = IF num_threads >= 1 THEN "mt_map_start" ELSE "mt_map_join"
            /\ err' = err
    /\ UNCHANGED <<extVars, inVars, mrVars, combState, map_lock, partial_maps, mt_keys,
                   mt_redState, reduce_lock, mt_reduced, combined_list, mt_result>>

\* lines 89-93: one pass of the loop that builds and starts the MapThreads
MTStartMap ==
    /\ pc = "mt_map_start"
    /\ LET i == NextToStart(mt_mapState)
       IN  /\ mt_text' = [mt_text EXCEPT ![i] = MapThreadText(lines, num_threads, i)]
           /\ mt_mapState' = [mt_mapState EXCEPT ![i] = "running"]
           /\ pc' = IF i = num_threads - 1 THEN "mt_map_join" ELSE "mt_map_start"
    /\ UNCHANGED <<extVars, inVars, err, mrVars, combState, map_lock, partial_maps, mt_keys,
                   mt_redState, reduce_lock, mt_reduced, combined_list, mt_result>>

\* lines 33-36: MapThread i has its counts and takes map_lock
MTMapAcquire(i) ==
    /\ i \in DOMAIN mt_mapState
    /\ mt_mapState[i] = "running"
    /\ map_lock = -1
    /\ map_lock' = i
    /\ mt_mapState' = [mt_mapState EXCEPT ![i] = "locked"]
    /\ UNCHANGED <<extVars, inVars, pc, err, mrVars, combState, mt_text, partial_maps, mt_keys,
                   mt_redState, reduce_lock, mt_reduced, combined_list, mt_result>>

\* line 37 and the end of the with block
MTMapAppend(i) ==
    /\ i \in DOMAIN mt_mapState
    /\ mt_mapState[i] = "locked"
    /\ map_lock = i
    /\ partial_maps' = Append(partial_maps, CounterOfText(mt_text[i]))
    /\ map_lock' = -1
    /\ mt_mapState' = [mt_mapState EXCEPT ![i] = "done"]
    /\ UNCHANGED <<extVars, inVars, pc, err, mrVars, combState, mt_text, mt_keys,
                   mt_redState, reduce_lock, mt_reduced, combined_list, mt_result>>

\* MapThread i: run() ends with an exception before line 36; threading prints
\* it and the thread terminates without appending.
MTMapRaise(i) ==
    /\ i \in DOMAIN mt_mapState
    /\ mt_mapState[i] = "running"
    /\ mt_mapState' = [mt_mapState EXCEPT ![i] = "raised"]
    /\ UNCHANGED <<extVars, inVars, pc, err, mrVars, combState, mt_text, map_lock, partial_maps,
                   mt_keys, mt_redState, reduce_lock, mt_reduced, combined_list, mt_result>>

\* lines 94-104: the joins have returned; the key set is collected
MTJoinMap ==
    /\ pc = "mt_map_join"
    /\ Terminated(mt_mapState)
    /\ mt_keys' = UnionKeys(partial_maps)
    /\ mt_redState' = [k \in mt_keys' |-> "idle"]
    /\ pc' = IF mt_keys' = {} THEN "mt_reduce_join" ELSE "mt_reduce_start"
    /\ UNCHANGED <<extVars, inVars, err, mrVars, combState, mt_text, mt_mapState, map_lock,
                   partial_maps, reduce_lock, mt_reduced, combined_list, mt_result>>

\* lines 105-108: one pass of `for key in keys`; a set is iterated in an order
\* the program does not fix
MTStartReduce(k) ==
    /\ pc = "mt_reduce_start"
    /\ k \in DOMAIN mt_redState
    /\ mt_redState[k] = "idle"
    /\ mt_redState' = [mt_redState EXCEPT ![k] = "running"]
    /\ pc' = IF \A w \in DOMAIN mt_redState : w = k \/ mt_redState[w] # "idle"
             THEN "mt_reduce_join" ELSE "mt_reduce_start"
    /\ UNCHANGED <<extVars, inVars, err, mrVars, combState, mt_text, mt_mapState, map_lock,
                   partial_maps, mt_keys, reduce_lock, mt_reduced, combined_list, mt_result>>

\* lines 50-51: ReduceThread of key k has its total and takes reduce_lock
MTReduceAcquire(k) ==
    /\ k \in DOMAIN mt_redState
    /\ mt_redState[k] = "running"
    /\ reduce_lock = <<>>
    /\ reduce_lock' = <<k>>
    /\ mt_redState' = [mt_redState EXCEPT ![k] = "locked"]
    /\ UNCHANGED <<extVars, inVars, pc, err, mrVars, combState, mt_text, mt_mapState, map_lock,
                   partial_maps, mt_keys, mt_reduced, combined_list, mt_result>>

\* line 52 and the end of the with block
MTReduceWrite(k) ==
    /\ k \in DOMAIN mt_redState
    /\ mt_redState[k] = "locked"
    /\ reduce_lock = <<k>>
    /\ mt_reduced' = DictFrom(mt_reduced, << <<k, SumKey(k, partial_maps, 1)>> >>, 1)
    /\ reduce_lock' = <<>>
    /\ mt_redState' = [mt_redState EXCEPT ![k] = "done"]
    /\ UNCHANGED <<extVars, inVars, pc, err, mrVars, combState, mt_text, mt_mapState, map_lock,
                   partial_maps, mt_keys, combined_list, mt_result>>

\* lines 109-110
MTJoinReduce ==
    /\ pc = "mt_reduce_join"
    /\ Terminated(mt_redState)
    /\ pc' = "mt_combine"
    /\ UNCHANGED <<extVars, inVars, err, mrVars, combState, mtVars>>

\* lines 113-116
MTStartCombiner ==
    /\ pc = "mt_combine"
    /\ combState' = "running"
    /\ pc' = "mt_combine_join"
    /\ UNCHANGED <<extVars, inVars, err, mrVars, mtVars>>

\* lines 63-71, on the CombinerThread (comb_lock has no other taker)
MTCombinerRun ==
    /\ pc = "mt_combine_join"
    /\ combState = "running"
    /\ combined_list' = combined_list \o SortedPairs(mt_reduced)
    /\ combState' = "done"
    /\ UNCHANGED <<extVars, inVars, pc, err, mrVars, mt_text, mt_mapState, map_lock, partial_maps,
                   mt_keys, mt_redState, reduce_lock, mt_reduced, mt_result>>

\* lines 117-120
MTJoinCombiner ==
    /\ pc = "mt_combine_join"
    /\ combState = "done"
    /\ mt_result' = DictOfPairs(combined_list)
    /\ pc' = "returned"
    /\ UNCHANGED <<extVars, inVars, err, mrVars, combState, mt_text, mt_mapState, map_lock,
                   partial_maps, mt_keys, mt_redState, reduce_lock, mt_reduced,
                   combined_list>>

\* every word the \w+ tokenizer can extract from the inputs
MTWords == UNION { DOMAIN single_thread_count(<<l>>) : l \in LineSet }

NextMT ==
    \/ MTBegin
    \/ MTStartMap
    \/ \E i \in PyRange(MaxThreads) : MTMapAcquire(i)
    \/ \E i \in PyRange(MaxThreads) : MTMapAppend(i)
    \/ MTJoinMap
    \/ \E k \in MTWords : MTStartReduce(k)
    \/ \E k \in MTWords : MTReduceAcquire(k)
    \/ \E k \in MTWords : MTReduceWrite(k)
    \/ MTJoinReduce
    \/ MTStartCombiner
    \/ MTCombinerRun
    \/ MTJoinCombiner

SpecMT == InitMT /\ [][NextMT]_vars

\* the same program with MapThreads whose run() may end with an exception
NextMTFault ==
    \/ NextMT
    \/ \E i \in PyRange(MaxThreads) : MTMapRaise(i)

SpecMTFault == InitMT /\ [][NextMTFault]_vars

(***************************************************************************)
(* Two calls of multi_threaded_wordcount in one process, one after the     *)
(* other or at the same time. Every list and dict the function creates is  *)
(* an object: slotLists[r] and dicts[r] are the objects, a call's locals    *)
(* hold references r to them, and the tasks get the references as args.    *)
(***************************************************************************)
TwoMaxThreads == 2
CallIds == {1, 2}
\* the inputs of the calls
CallInputs ==
    { << <<"a">>, <<"B", " ", "a">> >>,
      << <<"a", "B">>, <<"a">>, <<"a", "1", "b">> >>,
      << <<"B">> >> }

\* [None] * num_threads is a new list object
NewList(objs) == Len(objs) + 1

\* one dict object kept across calls (a mutable default instead of `= {}`)
NewDictShared(objs) == 1

\* final_counts = {} is a new dict object
NewDict(objs) == Len(objs) + 1

\* the object store after the object of reference r has been created
Created(objs, r, obj) == IF r > Len(objs) THEN Append(objs, obj) ELSE objs

InitTwo ==
    /\ lines = <<>>
    /\ num_threads = 0
    /\ pc = "idle"
    /\ err = ""
    /\ partitions = <<>>
    /\ intermediate = <<>>
    /\ mapState = <<>>
    /\ sorted_keys = <<>>
    /\ key_groups = <<>>
    /\ reduced = <<>>
    /\ redState = <<>>
    /\ final_counts = EmptyCounts
    /\ combState = "idle"
    /\ mt_text = <<>>
    /\ mt_mapState = <<>>
    /\ map_lock = -1
    /\ partial_maps = <<>>
    /\ mt_keys = {}
    /\ mt_redState = <<>>
    /\ reduce_lock = <<>>
    /\ mt_reduced = <<>>
    /\ combined_list = <<>>
    /\ mt_result = <<>>
    /\ calls \in [CallIds ->
                    { [lines |-> ls, n |-> n, pc |-> "start", partitions |-> <<>>,
                       inter |-> 0, mapState |-> <<>>, sorted_keys |-> <<>>,
                       key_groups |-> <<>>, red |-> 0, redState |-> <<>>,
                       final |-> 0, combState |-> "idle"] :
                      ls \in CallInputs, n \in 1 .. TwoMaxThreads }]
    /\ slotLists = <<>>
    /\ dicts = <<>>
    /\ ApiIdle
    /\ PCIdle

\* lines 66-75 of call c
CPartitionLines(c) ==
    LET me == calls[c]
        r == NewList(slotLists)
    IN  /\ me.pc = "start"
        /\ slotLists' = Created(slotLists, r, [i \in PyRange(me.n) |-> None])
        /\ calls' = [calls EXCEPT ![c] =
                        [me EXCEPT !.partitions = Partition(me.lines, me.n),
                                   !.inter = r,
                                   !.mapState = [i \in PyRange(me.n) |-> "idle"],
                                   !.pc = "map_start"]]
        /\ UNCHANGED <<wcVars, apiVars, pcVars, dicts>>

\* lines 76-79 of call c
CStartMap(c) ==
    LET me == calls[c]
        i == NextToStart(me.mapState)
    IN  /\ me.pc = "map_start"
        /\ calls' = [calls EXCEPT ![c] =
                        [me EXCEPT !.mapState[i] = "running",
                                   !.pc = IF i = me.n - 1 THEN "map_join" ELSE "map_start"]]
        /\ UNCHANGED <<wcVars, apiVars, pcVars, slotLists, dicts>>

\* map_task(part, intermediate, i) of call c
CMapRun(c, i) ==
    LET me == calls[c]
    IN  /\ i \in DOMAIN me.mapState
        /\ me.mapState[i] = "running"
        /\ slotLists' = [slotLists EXCEPT ![me.inter][i] = Some(map_task(me.partitions[i]))]
        /\ calls' = [calls EXCEPT ![c] = [me EXCEPT !.mapState[i] = "done"]]
        /\ UNCHANGED <<wcVars, apiVars, pcVars, dicts>>

\* lines 80-97 of call c: joins, shuffle, key groups, the list `reduced`
CShuffle(c) ==
    LET me == calls[c]
        inter == slotLists[me.inter]
        keys == Sorted(UniqueWords(inter))
        r == NewList(slotLists)
    IN  /\ me.pc = "map_join"
        /\ Terminated(me.mapState)
        /\ slotLists' = Created(slotLists, r, [i \in PyRange(me.n) |-> None])
        /\ calls' = [calls EXCEPT ![c] =
                        [me EXCEPT !.sorted_keys = keys,
                                   !.key_groups = Partition(keys, me.n),
                                   !.red = r,
                                   !.redState = [i \in PyRange(me.n) |-> "idle"],
                                   !.pc = "reduce_start"]]
        /\ UNCHANGED <<wcVars, apiVars, pcVars, dicts>>

\* lines 99-102 of call c
CStartReduce(c) ==
    LET me == calls[c]
        i == NextToStart(me.redState)
    IN  /\ me.pc = "reduce_start"
        /\ calls' = [calls EXCEPT ![c] =
                        [me EXCEPT !.redState[i] = "running",
                                   !.pc = IF i = me.n - 1 THEN "reduce_join" ELSE "reduce_start"]]
        /\ UNCHANGED <<wcVars, apiVars, pcVars, slotLists, dicts>>

\* reduce_task(keys, intermediate, reduced, i) of call c
CReduceRun(c, i) ==
    LET me == calls[c]
    IN  /\ i \in DOMAIN me.redState
        /\ me.redState[i] = "running"
        /\ slotLists' = [slotLists EXCEPT ![me.red][i] =
                             Some(reduce_task(me.key_groups[i], slotLists[me.inter]))]
        /\ calls' = [calls EXCEPT ![c] = [me EXCEPT !.redState[i] = "done"]]
        /\ UNCHANGED <<wcVars, apiVars, pcVars, dicts>>

\* lines 103-109 of call c: joins, final_counts = {}, combiner.start()
CStartCombiner(c) ==
    LET me == calls[c]
        r == NewDict(dicts)
    IN  /\ me.pc = "reduce_join"
        /\ Terminated(me.redState)
        /\ dicts' = Created(dicts, r, EmptyCounts)
        /\ calls' = [calls EXCEPT ![c] =
                        [me EXCEPT !.final = r, !.combState = "running",
                                   !.pc = "combine_join"]]
        /\ UNCHANGED <<wcVars, apiVars, pcVars, slotLists>>

\* combiner_task(reduced, final_counts) of call c
CCombinerRun(c) ==
    LET me == calls[c]
        out == CombineFrom(dicts[me.final], slotLists[me.red], 0)
    IN  /\ me.pc = "combine_join"
        /\ me.combState = "running"
        /\ dicts' = [dicts EXCEPT ![me.final] = out.counts]
        /\ calls' = [calls EXCEPT ![c] =
                        [me EXCEPT !.combState = IF out.raised THEN "raised" ELSE "done"]]
        /\ UNCHANGED <<wcVars, apiVars, pcVars, slotLists>>

\* lines 110-113 of call c
CJoinCombiner(c) ==
    LET me == calls[c]
    IN  /\ me.pc = "combine_join"
        /\ me.combState \in {"done", "raised"}
        /\ calls' = [calls EXCEPT ![c] = [me EXCEPT !.pc = "returned"]]
        /\ UNCHANGED <<wcVars, apiVars, pcVars, slotLists, dicts>>

NextTwo ==
    \E c \in CallIds :
        \/ CPartitionLines(c)
        \/ CStartMap(c)
        \/ \E i \in PyRange(TwoMaxThreads) : CMapRun(c, i)
        \/ CShuffle(c)
        \/ CStartReduce(c)
        \/ \E i \in PyRange(TwoMaxThreads) : CReduceRun(c, i)
        \/ CStartCombiner(c)
        \/ CCombinerRun(c)
        \/ CJoinCombiner(c)

SpecTwo == InitTwo /\ [][NextTwo]_vars

(***************************************************************************)
(* app.py: wordcount_api. The request is the uploaded file, given as the   *)
(* lines of its text, and the form field 'threads'. The two functions the  *)
(* handler calls are those of wordcount_mr.py: the call of line 24 runs    *)
(* the steps of multi_threaded_wordcount above.                            *)
(***************************************************************************)
Digits == <<"0", "1", "2", "3", "4", "5", "6", "7", "8", "9">>
IsDigit(ch) == \E d \in DOMAIN Digits : Digits[d] = ch
DigitValue(ch) == (CHOOSE d \in DOMAIN Digits : Digits[d] = ch) - 1

\* str.strip() of the blanks around a text
RECURSIVE Strip(_)
Strip(text) ==
    IF text # <<>> /\ Head(text) = " " THEN Strip(Tail(text))
    ELSE IF text # <<>> /\ text[Len(text)] = " " THEN Strip(SubSeq(text, 1, Len(text) - 1))
    ELSE text

\* the value of a run of decimal digits
RECURSIVE DigitsValue(_, _)
DigitsValue(text, acc) ==
    IF text = <<>> THEN acc
    ELSE DigitsValue(Tail(text), 10 * acc + DigitValue(Head(text)))

\* int(text): <<value>>, or <<>> for ValueError. Blanks around the number and
\* one sign are accepted, then only decimal digits, at least one.
PyInt(text) ==
    LET t == Strip(text)
        signed == t # <<>> /\ Head(t) \in {"+", "-"}
        body == IF signed THEN Tail(t) ELSE t
    IN  IF body = <<>> \/ \E j \in DOMAIN body : ~IsDigit(body[j])
        THEN <<>>
        ELSE <<(IF signed /\ Head(t) = "-" THEN 0 - DigitsValue(body, 0)
                ELSE DigitsValue(body, 0))>>

\* the decimal text of an integer of one digit
IntText(n) == IF n < 0 THEN <<"-", Digits[(0 - n) + 1]>> ELSE <<Digits[n + 1]>>

\* texts of the form field that are no integer
NonIntegerTexts == { <<>>, <<"a", "b">>, <<"1", ".", "5">>, <<"-">>, <<"2", " ", "1">> }
\* the form field: absent, an integer, or a text that is no integer
ThreadForms ==
    { <<>> } \cup { <<IntText(n)>> : n \in ThreadCounts } \cup { <<t>> : t \in NonIntegerTexts }

\* the test of line 17 with the bound off by one
RejectedBelowZero(n) == n < 0

\* line 17: if num_threads < 1
Rejected(n) == n < 1

InitApp ==
    /\ lines = <<>>
    /\ num_threads = 0
    /\ pc = "idle"
    /\ err = ""
    /\ partitions = <<>>
    /\ intermediate = <<>>
    /\ mapState = <<>>
    /\ sorted_keys = <<>>
    /\ key_groups = <<>>
    /\ reduced = <<>>
    /\ redState = <<>>
    /\ final_counts = EmptyCounts
    /\ combState = "idle"
    /\ mt_text = <<>>
    /\ mt_mapState = <<>>
    /\ map_lock = -1
    /\ partial_maps = <<>>
    /\ mt_keys = {}
    /\ mt_redState = <<>>
    /\ reduce_lock = <<>>
    /\ mt_reduced = <<>>
    /\ combined_list = <<>>
    /\ mt_result = <<>>
    /\ TwoIdle
    /\ api_pc = "request"
    /\ api_file \in { <<>> } \cup { <<ls>> : ls \in Inputs }
    /\ api_form \in ThreadForms
    /\ api_status = 0
    /\ api_body = ""
    /\ single_counts = <<>>
    /\ PCIdle

\* lines 12-14
ApiCheckFile ==
    /\ api_pc = "request"
    /\ IF api_file = <<>>
       THEN /\ api_status' = 400
            /\ api_body' = "Missing file"
            /\ api_pc' = "responded"
       ELSE /\ api_pc' = "threads"
            /\ UNCHANGED <<api_status, api_body>>
    /\ UNCHANGED <<wcVars, twoVars, pcVars, api_file, api_form, single_counts>>

\* lines 15-20: int(request.form.get('threads', '1')), the test and the except
ApiParseThreads ==
    /\ api_pc = "threads"
    /\ LET parsed == PyInt(IF api_form = <<>> THEN <<"1">> ELSE api_form[1])
       IN  IF parsed = <<>> \/ Rejected(parsed[1])
           THEN /\ api_status' = 400
                /\ api_body' = "Invalid thread count"
                /\ api_pc' = "responded"
                /\ num_threads' = num_threads
           ELSE /\ num_threads' = parsed[1]
                /\ api_pc' = "single"
                /\ UNCHANGED <<api_status, api_body>>
    /\ UNCHANGED <<lines, pc, err, mrVars, combState, mtVars, twoVars, pcVars, api_file, api_form,
                   single_counts>>

\* lines 22-23: the lines of the file, single_threaded_wordcount(content)
ApiCallSingle ==
    /\ api_pc = "single"
    /\ lines' = api_file[1]
    /\ single_counts' = <<single_threaded_wordcount(api_file[1])>>
    /\ api_pc' = "multi"
    /\ UNCHANGED <<num_threads, pc, err, mrVars, combState, mtVars, twoVars, pcVars, api_file,
                   api_form, api_status, api_body>>

\* line 24: multi_threaded_wordcount(content, num_threads) is entered
ApiCallMulti ==
    /\ api_pc = "multi"
    /\ pc' = "start"
    /\ api_pc' = "in_multi"
    /\ UNCHANGED <<inVars, err, mrVars, combState, mtVars, twoVars, pcVars, api_file, api_form,
                   api_status, api_body, single_counts>>

\* lines 25-29: the call has returned and the JSON response is sent; an
\* exception of the call is a 500 of the framework
ApiRespond ==
    /\ api_pc = "in_multi"
    /\ pc \in {"returned", "error"}
    /\ api_status' = IF pc = "returned" THEN 200 ELSE 500
    /\ api_pc' = "responded"
    /\ UNCHANGED <<wcVars, twoVars, pcVars, api_file, api_form, api_body, single_counts>>

NextApp ==
    \/ ApiCheckFile
    \/ ApiParseThreads
    \/ ApiCallSingle
    \/ ApiCallMulti
    \/ ApiRespond
    \/ Next

SpecApp == InitApp /\ [][NextApp]_vars

(***************************************************************************)
(* script.py: Producer and Consumer threads on the one-cell buffer.        *)
(***************************************************************************)
PCProducers == 2
PCConsumers == 2
\* a Producer leaves its loop (the ten seconds are over) at the latest after
\* this many rounds
MaxItems == 1

ProducerIds == 1 .. PCProducers
ConsumerIds == (PCProducers + 1) .. (PCProducers + PCConsumers)

InitPC ==
    /\ lines = <<>>
    /\ num_threads = 0
    /\ pc = "idle"
    /\ err = ""
    /\ partitions = <<>>
    /\ intermediate = <<>>
    /\ mapState = <<>>
    /\ sorted_keys = <<>>
    /\ key_groups = <<>>
    /\ reduced = <<>>
    /\ redState = <<>>
    /\ final_counts = EmptyCounts
    /\ combState = "idle"
    /\ mt_text = <<>>
    /\ mt_mapState = <<>>
    /\ map_lock = -1
    /\ partial_maps = <<>>
    /\ mt_keys = {}
    /\ mt_redState = <<>>
    /\ reduce_lock = <<>>
    /\ mt_reduced = <<>>
    /\ combined_list = <<>>
    /\ mt_result = <<>>
    /\ TwoIdle
    /\ ApiIdle
    /\ writeable = TRUE
    /\ bufferCell = 0
    /\ lock = 0
    /\ prodPc = [p \in ProducerIds |-> "loop"]
    /\ prodItem = [p \in ProducerIds |-> 0]
    /\ consPc = [c \in ConsumerIds |-> "loop"]
    /\ alive = TRUE
    /\ nStored = 0
    /\ nReceived = 0

\* lines 34-35: the loop test holds and i = i + 1
ProducerRound(p) ==
    /\ prodPc[p] = "loop"
    /\ prodItem[p] < MaxItems
    /\ prodItem' = [prodItem EXCEPT ![p] = @ + 1]
    /\ prodPc' = [prodPc EXCEPT ![p] = "wait"]
    /\ UNCHANGED <<wcVars, twoVars, apiVars, writeable, bufferCell, lock, consPc, alive,
                   nStored, nReceived>>

\* line 34: the ten seconds are over
ProducerEnd(p) ==
    /\ prodPc[p] = "loop"
    /\ prodPc' = [prodPc EXCEPT ![p] = "end"]
    /\ UNCHANGED <<wcVars, twoVars, apiVars, writeable, bufferCell, lock, prodItem, consPc,
                   alive, nStored, nReceived>>

\* lines 36-39: the unlocked test of writeable lets the Producer go on
ProducerWait(p) ==
    /\ prodPc[p] = "wait"
    /\ writeable = TRUE
    /\ prodPc' = [prodPc EXCEPT ![p] = "acquire"]
    /\ UNCHANGED <<wcVars, twoVars, apiVars, writeable, bufferCell, lock, prodItem, consPc,
                   alive, nStored, nReceived>>

\* line 40
ProducerAcquire(p) ==
    /\ prodPc[p] = "acquire"
    /\ lock = 0
    /\ lock' = p
    /\ prodPc' = [prodPc EXCEPT ![p] = "check"]
    /\ UNCHANGED <<wcVars, twoVars, apiVars, writeable, bufferCell, prodItem, consPc, alive,
                   nStored, nReceived>>

\* bufferCell = i without the test of line 41
ProducerStoreUnchecked(p) ==
    /\ prodPc[p] = "check"
    /\ bufferCell' = prodItem[p]
    /\ nStored' = nStored + 1
    /\ prodPc' = [prodPc EXCEPT ![p] = "flip"]
    /\ UNCHANGED <<wcVars, twoVars, apiVars, writeable, lock, prodItem, consPc, alive,
                   nReceived>>

\* lines 41-43: under the lock, the item is stored if writeable is still True
ProducerStore(p) ==
    /\ prodPc[p] = "check"
    /\ IF writeable = TRUE
       THEN /\ bufferCell' = prodItem[p]
            /\ nStored' = nStored + 1
            /\ prodPc' = [prodPc EXCEPT ![p] = "flip"]
       ELSE /\ prodPc' = [prodPc EXCEPT ![p] = "release"]
            /\ UNCHANGED <<bufferCell, nStored>>
    /\ UNCHANGED <<wcVars, twoVars, apiVars, writeable, lock, prodItem, consPc, alive,
                   nReceived>>

\* line 44
ProducerFlip(p) ==
    /\ prodPc[p] = "flip"
    /\ writeable' = FALSE
    /\ prodPc' = [prodPc EXCEPT ![p] = "release"]
    /\ UNCHANGED <<wcVars, twoVars, apiVars, bufferCell, lock, prodItem, consPc, alive,
                   nStored, nReceived>>

\* line 45
ProducerRelease(p) ==
    /\ prodPc[p] = "release"
    /\ lock' = 0
    /\ prodPc' = [prodPc EXCEPT ![p] = "loop"]
    /\ UNCHANGED <<wcVars, twoVars, apiVars, writeable, bufferCell, prodItem, consPc, alive,
                   nStored, nReceived>>

\* line 51: while x.is_alive()
ConsumerRound(c) ==
    /\ consPc[c] = "loop"
    /\ consPc' = [consPc EXCEPT ![c] = IF alive THEN "wait" ELSE "end"]
    /\ UNCHANGED <<wcVars, twoVars, apiVars, writeable, bufferCell, lock, prodPc, prodItem,
                   alive, nStored, nReceived>>

\* lines 52-55: the unlocked test lets the Consumer go on
ConsumerWait(c) ==
    /\ consPc[c] = "wait"
    /\ writeable = FALSE \/ ~alive
    /\ consPc' = [consPc EXCEPT ![c] = "acquire"]
    /\ UNCHANGED <<wcVars, twoVars, apiVars, writeable, bufferCell, lock, prodPc, prodItem,
                   alive, nStored, nReceived>>

\* line 56
ConsumerAcquire(c) ==
    /\ consPc[c] = "acquire"
    /\ lock = 0
    /\ lock' = c
    /\ consPc' = [consPc EXCEPT ![c] = "check"]
    /\ UNCHANGED <<wcVars, twoVars, apiVars, writeable, bufferCell, prodPc, prodItem, alive,
                   nStored, nReceived>>

\* lines 57-58: under the lock, the item is received if writeable is False
ConsumerReceive(c) ==
    /\ consPc[c] = "check"
    /\ IF writeable = FALSE
       THEN /\ nReceived' = nReceived + 1
            /\ consPc' = [consPc EXCEPT ![c] = "flip"]
       ELSE /\ consPc' = [consPc EXCEPT ![c] = "release"]
            /\ UNCHANGED nReceived
    /\ UNCHANGED <<wcVars, twoVars, apiVars, writeable, bufferCell, lock, prodPc, prodItem,
                   alive, nStored>>

\* line 59
ConsumerFlip(c) ==
    /\ consPc[c] = "flip"
    /\ writeable' = TRUE
    /\ consPc' = [consPc EXCEPT ![c] = "release"]
    /\ UNCHANGED <<wcVars, twoVars, apiVars, bufferCell, lock, prodPc, prodItem, alive,
                   nStored, nReceived>>

\* line 60
ConsumerRelease(c) ==
    /\ consPc[c] = "release"
    /\ lock' = 0
    /\ consPc' = [consPc EXCEPT ![c] = "loop"]
    /\ UNCHANGED <<wcVars, twoVars, apiVars, writeable, bufferCell, prodPc, prodItem, alive,
                   nStored, nReceived>>

\* the thread x ends
XEnds ==
    /\ alive = TRUE
    /\ prodPc # <<>>
    /\ alive' = FALSE
    /\ UNCHANGED <<wcVars, twoVars, apiVars, writeable, bufferCell, lock, prodPc, prodItem,
                   consPc, nStored, nReceived>>

NextPC ==
    \/ \E p \in ProducerIds :
          \/ ProducerRound(p)
          \/ ProducerEnd(p)
          \/ ProducerWait(p)
          \/ ProducerAcquire(p)
          \/ ProducerStore(p)
          \/ ProducerFlip(p)
          \/ ProducerRelease(p)
    \/ \E c \in ConsumerIds :
          \/ ConsumerRound(c)
          \/ ConsumerWait(c)
          \/ ConsumerAcquire(c)
          \/ ConsumerReceive(c)
          \/ ConsumerFlip(c)
          \/ ConsumerRelease(c)
    \/ XEnds

SpecPC == InitPC /\ [][NextPC]_vars

(***************************************************************************)
(* Properties                                                              *)
(***************************************************************************)
Returned == pc = "returned"
\* the chunks of wordcount_mr have been cut
Partitioned == pc \notin {"start", "mt_start"} /\ DOMAIN partitions = PyRange(num_threads)

\* the number of tokens the [A-Za-z]+ tokenizer extracts from ls
RECURSIVE TotalTokens(_)
TotalTokens(ls) ==
    IF ls = <<>> THEN 0
    ELSE Len(FindAll(AlphaClass, Lower(Head(ls)))) + TotalTokens(Tail(ls))

\* chunks[0] + chunks[1] + ... in index order
RECURSIVE ConcatFrom(_, _)
ConcatFrom(chunks, i) ==
    IF i \notin DOMAIN chunks THEN <<>> ELSE chunks[i] \o ConcatFrom(chunks, i + 1)

\* the number of elements in the chunks before chunk i
RECURSIVE LenBefore(_, _)
LenBefore(chunks, i) ==
    IF i = 0 THEN 0 ELSE LenBefore(chunks, i - 1) + Len(chunks[i - 1])

\* C1: for num_threads >= 1, whatever the order in which the Map threads and
\* the Reduce threads ran, the mapping multi_threaded_wordcount returns has the
\* keys and the counts of the mapping single_threaded_wordcount returns.
C1_Equivalence ==
    (Returned /\ num_threads >= 1) => final_counts = single_threaded_wordcount(lines)

C1_Witness ==
    /\ Returned
    /\ num_threads = 3
    /\ Len(lines) = 3
    /\ Cardinality(DOMAIN final_counts) = 3
    /\ \E w \in DOMAIN final_counts : final_counts[w] >= 2

\* C2: for num_threads >= 1, whatever the order in which the MapThreads and
\* the ReduceThreads took their locks, the dict multithreaded_count returns
\* equals dict(single_thread_count(lines)) as a mapping.
C2_MTEquivalence ==
    (Returned /\ num_threads >= 1) => AsMapping(mt_result) = single_thread_count(lines)

C2_Witness ==
    /\ Returned
    /\ num_threads >= 2
    /\ Len(mt_result) >= 3
    /\ \E j \in DOMAIN partial_maps : j > 1 /\ partial_maps[j] # EmptyCounts
    /\ partial_maps[1] = CounterOfText(mt_text[1])
    /\ mt_reduced # combined_list

\* C3: for num_threads >= 1 the values of the mapping multi_threaded_wordcount
\* returns add up to the number of tokens the tokenizer extracts from the lines.
C3_CountConservation ==
    (Returned /\ num_threads >= 1) => SumValues(final_counts) = TotalTokens(lines)

C3_Witness ==
    /\ Returned
    /\ num_threads >= 2
    /\ TotalTokens(lines) >= 4
    /\ Cardinality(DOMAIN final_counts) < TotalTokens(lines)

\* C4 (as claimed): a thread count below 1 is rejected with an error before
\* any Map, Reduce or Combiner thread is started, and no mapping is returned.
C4_RejectsBelowOne ==
    num_threads < 1 =>
        /\ ~Returned
        /\ combState = "idle"
        /\ \A i \in DOMAIN mapState : mapState[i] = "idle"
        /\ \A i \in DOMAIN redState : redState[i] = "idle"

\* C5: once a Map task has raised before storing its counts, the call ends
\* with an error: it can only go on to the AttributeError of the shuffle, no
\* Reduce thread and no Combiner thread is started, nothing is merged into
\* final_counts and the call does not return.
C5_MapFailureAborts ==
    (\E i \in DOMAIN mapState : mapState[i] = "raised") =>
        /\ pc \in {"map_start", "map_join", "shuffle", "error"}
        /\ (pc = "error" => err = "AttributeError")
        /\ (pc # "error" => ENABLED NextFault)
        /\ redState = <<>>
        /\ reduced = <<>>
        /\ combState = "idle"
        /\ final_counts = EmptyCounts

C5_Witness ==
    /\ pc = "error"
    /\ err = "AttributeError"
    /\ \E i \in DOMAIN mapState : mapState[i] = "raised"
    /\ \E i \in DOMAIN mapState : mapState[i] = "done" /\ intermediate[i] # Some(EmptyCounts)

\* C6 (as claimed): once a Reduce task has raised before storing its counts,
\* the call does not return a mapping.
C6_ReduceFailureAborts ==
    (\E i \in DOMAIN redState : redState[i] = "raised") => ~Returned

\* C7 (as claimed): whenever multithreaded_count returns a mapping, the
\* partial counter of every chunk was appended to partial_maps.
C7_NoChunkDropped ==
    (Returned /\ num_threads >= 1) => Len(partial_maps) = num_threads

\* C8: for num_threads = n >= 1 the partition of the lines has exactly n
\* chunks, chunk i is the slice of the lines that starts where chunk i-1 ends
\* (contiguous, disjoint), the chunks concatenated in index order are the
\* lines, every chunk but the last has len(lines) // n lines and the last has
\* the rest, so the lengths add up to len(lines).
C8_PartitionExact ==
    (Partitioned /\ num_threads >= 1) =>
        LET n == num_threads
            size == Len(lines) \div n
        IN  /\ DOMAIN partitions = 0 .. (n - 1)
            /\ \A i \in 0 .. (n - 1) :
                   partitions[i] = SubSeq(lines, LenBefore(partitions, i) + 1,
                                          LenBefore(partitions, i) + Len(partitions[i]))
            /\ ConcatFrom(partitions, 0) = lines
            /\ LenBefore(partitions, n) = Len(lines)
            /\ \A i \in 0 .. (n - 2) : Len(partitions[i]) = size
            /\ Len(partitions[n - 1]) = Len(lines) - (n - 1) * size

C8_Witness ==
    /\ Partitioned
    /\ num_threads = 2
    /\ Len(lines) = 3
    /\ Len(partitions[0]) = 1
    /\ Len(partitions[1]) = 2
    /\ lines[1] # lines[2]

\* C9 (as claimed): when num_threads > len(lines) the partition has
\* num_threads chunks and no empty chunk has a lower index than a non-empty one.
C9_EmptyChunksTrail ==
    (Partitioned /\ num_threads >= 1 /\ num_threads > Len(lines)) =>
        /\ DOMAIN partitions = 0 .. (num_threads - 1)
        /\ \A i, j \in DOMAIN partitions :
               (i < j /\ partitions[i] = <<>>) => partitions[j] = <<>>

\* C9 (amended): when num_threads > len(lines) the partition has num_threads
\* chunks, every chunk but the last is empty and the last chunk holds all the
\* lines: the empty chunks are the leading ones.
C9_EmptyChunksLead ==
    (Partitioned /\ num_threads >= 1 /\ num_threads > Len(lines)) =>
        /\ DOMAIN partitions = 0 .. (num_threads - 1)
        /\ \A i \in 0 .. (num_threads - 2) : partitions[i] = <<>>
        /\ partitions[num_threads - 1] = lines

C9_Witness ==
    /\ Partitioned
    /\ num_threads = 3
    /\ Len(lines) = 2
    /\ partitions[0] = <<>>
    /\ partitions[2] = lines

\* C10: with more threads than lines, or more threads than distinct words,
\* the call raises no error and can always go on until it returns; a Map task
\* with an empty chunk and a Reduce task with an empty key group store an empty
\* map, and the mapping returned equals the sequential one.
C10_MoreWorkersThanData ==
    (/\ num_threads >= 1
     /\ \/ num_threads > Len(lines)
        \/ num_threads > Cardinality(DOMAIN single_threaded_wordcount(lines))) =>
        /\ pc # "error"
        /\ (~Returned => ENABLED Next)
        /\ \A i \in DOMAIN mapState :
               (mapState[i] = "done" /\ partitions[i] = <<>>) => intermediate[i] = Some(EmptyCounts)
        /\ \A i \in DOMAIN redState :
               (redState[i] = "done" /\ key_groups[i] = <<>>) => reduced[i] = Some(EmptyCounts)
        /\ (Returned => final_counts = single_threaded_wordcount(lines))

C10_Witness ==
    /\ Returned
    /\ num_threads = 3
    /\ Len(lines) = 2
    /\ Cardinality(DOMAIN final_counts) = 2
    /\ intermediate[0] = Some(EmptyCounts)
    /\ reduced[0] = Some(EmptyCounts)
    /\ reduced[2] # Some(EmptyCounts)

\* C11: for the empty line sequence and num_threads >= 1 the sequential count
\* is empty, the concurrent call raises no error and can always go on until it
\* returns, and when it returns every Map, Reduce and Combiner thread has run
\* and the mapping returned is empty.
C11_EmptyInput ==
    (lines = <<>> /\ num_threads >= 1) =>
        /\ single_threaded_wordcount(lines) = EmptyCounts
        /\ pc # "error"
        /\ (~Returned => ENABLED Next)
        /\ Returned =>
              /\ final_counts = EmptyCounts
              /\ DOMAIN mapState = PyRange(num_threads)
              /\ \A i \in DOMAIN mapState : mapState[i] = "done"
              /\ DOMAIN redState = PyRange(num_threads)
              /\ \A i \in DOMAIN redState : redState[i] = "done"
              /\ combState = "done"

C11_Witness ==
    /\ lines = <<>>
    /\ num_threads = 3
    /\ Returned
    /\ final_counts = EmptyCounts
    /\ reduced = [i \in PyRange(3) |-> Some(EmptyCounts)]

\* the dict `reduced` of wordcount_mt when the ReduceThreads write in
\* ascending order of their keys
ReferenceReduced ==
    LET ks == Sorted(mt_keys)
    IN  [j \in DOMAIN ks |-> <<ks[j], SumKey(ks[j], partial_maps, 1)>>]

\* C12 (as claimed): the sequence the Combiner of wordcount_mt produces is in
\* non-increasing order of count and is the same in every run on the same
\* input, whatever the order in which the ReduceThreads completed: it is the
\* sequence of the run in which they complete in ascending key order.
C12_OrderDeterministic ==
    (Returned /\ num_threads >= 1) =>
        /\ \A j \in 1 .. (Len(combined_list) - 1) :
               combined_list[j][2] >= combined_list[j + 1][2]
        /\ combined_list = SortedPairs(ReferenceReduced)

\* C15: no Reduce thread is started before every Map thread has stored its
\* slot of intermediate, the shuffle runs only after every Map thread has
\* terminated, and the Combiner thread is not started before every Reduce
\* thread has stored its slot of reduced.
C15_Barriers ==
    /\ (\E i \in DOMAIN redState : redState[i] # "idle") =>
           \A j \in DOMAIN mapState : mapState[j] = "done" /\ intermediate[j] # None
    /\ (pc = "shuffle" \/ sorted_keys # <<>> \/ key_groups # <<>>) =>
           /\ DOMAIN mapState = PyRange(num_threads)
           /\ Terminated(mapState)
    /\ combState # "idle" =>
           /\ DOMAIN redState = PyRange(num_threads)
           /\ \A i \in DOMAIN redState : redState[i] = "done" /\ reduced[i] # None

C15_Witness ==
    /\ num_threads = 3
    /\ combState = "running"
    /\ \A i \in PyRange(3) : reduced[i] # None /\ reduced[i] # Some(EmptyCounts)

\* the key groups of wordcount_mr have been cut
Shuffled == pc \in {"reduce_start", "reduce_join", "combine", "combine_join", "returned"}
SetOf(seq) == { seq[j] : j \in DOMAIN seq }

\* a step changes the slots of `slots` only by thread i storing into slot i,
\* once, while it runs and as it ends; a step that changes the index set is
\* the allocation [None] * num_threads
SlotStep(slots, slotsNext, state, stateNext) ==
    IF DOMAIN slotsNext # DOMAIN slots
    THEN slots = <<>> /\ \A i \in DOMAIN slotsNext : slotsNext[i] = None
    ELSE \A i \in DOMAIN slots :
             slotsNext[i] # slots[i] =>
                 /\ slots[i] = None
                 /\ slotsNext[i] # None
                 /\ state[i] = "running"
                 /\ stateNext[i] = "done"
                 /\ \A j \in DOMAIN slots \ {i} :
                        slotsNext[j] = slots[j] /\ stateNext[j] = state[j]

NoneRaised(state) == \A i \in DOMAIN state : state[i] # "raised"

\* C16: Map task i stores only into intermediate[i] and Reduce task i only
\* into reduced[i]; a slot is stored once (from None), by a step of its own
\* task that changes no other slot; and when the joins of a phase end and no
\* task of the phase has failed, no slot of the phase is None.
C16_SlotDiscipline ==
    [][ /\ SlotStep(intermediate, intermediate', mapState, mapState')
        /\ SlotStep(reduced, reduced', redState, redState')
        /\ (pc = "map_join" /\ pc' = "shuffle" /\ NoneRaised(mapState)) =>
               \A i \in PyRange(num_threads) : intermediate'[i] # None
        /\ (pc = "reduce_join" /\ pc' = "combine" /\ NoneRaised(redState)) =>
               \A i \in PyRange(num_threads) : reduced'[i] # None
      ]_vars

C16_Witness ==
    /\ pc = "combine"
    /\ num_threads = 3
    /\ NoneRaised(mapState) /\ NoneRaised(redState)
    /\ \A i \in PyRange(3) : intermediate[i] # None /\ reduced[i] # None
    /\ Cardinality({ reduced[i] : i \in PyRange(3) }) = 3

\* C17: for num_threads >= 1 the key groups are pairwise disjoint, hold no
\* word twice, and together hold exactly the words of the Map outputs, in
\* sorted order; every word is in exactly one group, and no two reduced maps
\* share a word.
C17_KeyGroupsPartition ==
    (Shuffled /\ num_threads >= 1) =>
        /\ DOMAIN key_groups = PyRange(num_threads)
        /\ ConcatFrom(key_groups, 0) = sorted_keys
        /\ \A i \in DOMAIN key_groups : Cardinality(SetOf(key_groups[i])) = Len(key_groups[i])
        /\ \A i, j \in DOMAIN key_groups :
               i # j => SetOf(key_groups[i]) \cap SetOf(key_groups[j]) = {}
        /\ UNION { SetOf(key_groups[i]) : i \in DOMAIN key_groups } = UniqueWords(intermediate)
        /\ \A w \in UniqueWords(intermediate) :
               Cardinality({ i \in DOMAIN key_groups : w \in SetOf(key_groups[i]) }) = 1
        /\ \A i, j \in DOMAIN reduced :
               (i # j /\ reduced[i] # None /\ reduced[j] # None) =>
                   DOMAIN reduced[i][1] \cap DOMAIN reduced[j][1] = {}

C17_Witness ==
    /\ pc = "combine"
    /\ num_threads = 2
    /\ Len(sorted_keys) = 3
    /\ Len(key_groups[0]) = 1
    /\ Len(key_groups[1]) = 2
    /\ DOMAIN reduced[1][1] = SetOf(key_groups[1])

\* the sum of the counts of word w over the Map outputs with index in idx,
\* an output without w adding 0
RECURSIVE TotalOver(_, _)
TotalOver(w, idx) ==
    IF idx = {} THEN 0
    ELSE LET j == CHOOSE x \in idx : TRUE
         IN  (IF w \in DOMAIN intermediate[j][1] THEN intermediate[j][1][w] ELSE 0)
             + TotalOver(w, idx \ {j})

\* C18: the map a Reduce task stores has exactly the keys of its key group,
\* each with the sum of that key's counts over all Map outputs; no Reduce
\* task raises.
C18_ReducedSums ==
    \A i \in DOMAIN redState :
        /\ redState[i] # "raised"
        /\ redState[i] = "done" =>
              /\ reduced[i] # None
              /\ DOMAIN reduced[i][1] = SetOf(key_groups[i])
              /\ \A w \in DOMAIN reduced[i][1] :
                     reduced[i][1][w] = TotalOver(w, DOMAIN intermediate)

C18_Witness ==
    /\ num_threads = 3
    /\ \E i \in DOMAIN redState :
          /\ redState[i] = "done"
          /\ \E w \in DOMAIN reduced[i][1] :
                /\ w \notin DOMAIN intermediate[i][1]
                /\ Cardinality({ j \in DOMAIN intermediate : w \in DOMAIN intermediate[j][1] }) = 2
                /\ reduced[i][1][w] >= 2

\* C19: under fair scheduling every call with num_threads >= 1 comes to the
\* state where every Map, Reduce and Combiner thread has finished, every join
\* has returned and the call has returned its result.
C19_Terminates ==
    (num_threads >= 1) =>
        <>(/\ Returned
           /\ err = ""
           /\ DOMAIN mapState = PyRange(num_threads)
           /\ \A i \in DOMAIN mapState : mapState[i] = "done"
           /\ DOMAIN redState = PyRange(num_threads)
           /\ \A i \in DOMAIN redState : redState[i] = "done"
           /\ combState = "done")

C19_Witness ==
    /\ Returned
    /\ num_threads = 3
    /\ Len(lines) = 3
    /\ \A i \in PyRange(3) : mapState[i] = "done" /\ redState[i] = "done"
    /\ combState = "done"
    /\ final_counts # EmptyCounts

\* the objects call c holds references to
ObjectsOf(c) == {<<"list", calls[c].inter>>, <<"list", calls[c].red>>, <<"dict", calls[c].final>>}
                    \ {<<"list", 0>>, <<"dict", 0>>}

\* C13: two calls of multi_threaded_wordcount, run one after the other or at
\* the same time, share no object, and each returns the sequential count of
\* its own lines.
C13_NoSharedState ==
    /\ \A c, d \in DOMAIN calls : c # d => ObjectsOf(c) \cap ObjectsOf(d) = {}
    /\ \A c \in DOMAIN calls :
           calls[c].pc = "returned" =>
               dicts[calls[c].final] = single_threaded_wordcount(calls[c].lines)

C13_Witness ==
    /\ calls # <<>>
    /\ calls[1].pc = "returned"
    /\ calls[2].pc = "returned"
    /\ calls[1].lines # calls[2].lines
    /\ calls[1].n = 2 /\ calls[2].n = 2
    /\ calls[1].inter > calls[2].inter
    /\ calls[1].final < calls[2].final
    /\ dicts[calls[1].final] # dicts[calls[2].final]

\* the form field holds a text: one that is no integer, or an integer below 1
InvalidThreads ==
    /\ api_form # <<>>
    /\ \/ api_form[1] \in NonIntegerTexts
       \/ \E n \in ThreadCounts : n < 1 /\ api_form[1] = IntText(n)

\* one of the two word count functions has been called
CoreCalled == single_counts # <<>> \/ pc # "idle" \/ api_pc \in {"multi", "in_multi"}

\* C14: for a request with a file whose 'threads' is no integer or an integer
\* below 1, the response is 400 'Invalid thread count' and neither word count
\* function is called; the functions are called only with num_threads >= 1,
\* the integer of the form field (1 when the field is absent).
C14_InvalidThreadsRejected ==
    /\ (api_file # <<>> /\ InvalidThreads) =>
           /\ ~CoreCalled
           /\ api_pc \in {"request", "threads", "responded"}
           /\ api_pc = "responded" => (api_status = 400 /\ api_body = "Invalid thread count")
    /\ CoreCalled =>
           /\ api_file # <<>>
           /\ num_threads >= 1
           /\ \/ api_form = <<>> /\ num_threads = 1
              \/ api_form # <<>> /\ api_form[1] = IntText(num_threads)

C14_Witness ==
    /\ api_file # <<>>
    /\ api_file[1] # <<>>
    /\ api_form = << <<"0">> >>
    /\ api_pc = "responded"
    /\ api_status = 400
    /\ api_body = "Invalid thread count"

\* C20: the stores into bufferCell and the receptions from it alternate,
\* starting with a store: an item is stored only by a Producer that holds the
\* lock while writeable is True and the previous item has been received, and
\* an item is received only by a Consumer that holds the lock while writeable
\* is False and one item is waiting.
C20_Alternation ==
    /\ [](/\ nStored - nReceived \in {0, 1}
          /\ (nStored = nReceived + 1 /\ writeable = TRUE) =>
                 (lock \in ProducerIds /\ prodPc[lock] = "flip")
          /\ (nStored = nReceived /\ writeable = FALSE) =>
                 (lock \in ConsumerIds /\ consPc[lock] = "flip"))
    /\ [][ /\ nStored' # nStored =>
                 /\ writeable = TRUE
                 /\ lock \in ProducerIds
                 /\ prodPc[lock] = "check"
                 /\ nStored = nReceived
                 /\ nStored' = nStored + 1
                 /\ bufferCell' = prodItem[lock]
           /\ bufferCell' # bufferCell => nStored' # nStored
           /\ nReceived' # nReceived =>
                 /\ writeable = FALSE
                 /\ lock \in ConsumerIds
                 /\ consPc[lock] = "check"
                 /\ nStored = nReceived + 1
                 /\ nReceived' = nReceived + 1
         ]_vars

C20_Witness ==
    /\ nStored = 2
    /\ nReceived = 2
    /\ bufferCell = 1
    /\ \A p \in ProducerIds : prodPc[p] = "end"
    /\ \E c, d \in ConsumerIds : c # d /\ consPc[c] = "release" /\ consPc[d] = "acquire"

====
